---- MODULE Spec2Model ----
(***************************************************************************)
(* Model of build_qt: the Qt6 two-phase build driver (qt6_build.py) and    *)
(* the remote revision pinning utility (commit_hash_fetcher.py).           *)
(*                                                                         *)
(* Strings whose characters matter (hashes, the output of git ls-remote,   *)
(* the pin file) are sequences of one-character strings.  The caller,      *)
(* the file system and the launched processes are the environment: their   *)
(* choices are the inputs bound by \E in Init and in the actions.          *)
(***************************************************************************)
EXTENDS Integers, Sequences, FiniteSets, TLC

VARIABLES
    config,     \* what the Config object answers (constant after Init)
    fs,         \* the part of the file system Qt6Build reads and writes
    environ,    \* os.environ['PATH'], a sequence of entries, first = highest priority
    self,       \* the Qt6Build object: constructed, system, cmake_cmd
    log,        \* external processes started so far: <<[stage, exit], ...>>
    last,       \* the last public operation called and the exception it raised
    pc,         \* position of the driver script configure(); build(); install()
    pinFile,    \* content of commit_hash_file, or NoFile
    fetcher     \* the last CommitHashFetcher operation with its inputs and result

vars == <<config, fs, environ, self, log, last, pc, pinFile, fetcher>>

----------------------------------------------------------------------------
(* Bounds of the model *)

\* longest sequence of public operations called on one orchestrator
MaxCalls == 3

\* hash candidates are Pad shorter or longer than the required length, or of it
Pad == 1

----------------------------------------------------------------------------
(* Values *)

None == "<None>"
\* a directory that does not exist (an existing one is the set of its files)
NoDir == {"<absent>"}
\* a file that does not exist (an existing one is the sequence of its characters)
NoFile == <<"<absent>">>
\* Python's None where a string is expected
NoneStr == <<"<None>">>
NoExc == "none"

supported_systems == {"Windows", "Linux", "Darwin"}

\* platform.system() values the model draws from
Systems == {"Windows", "Linux", "FreeBSD"}

dll_deps == <<"libstdc++-6.dll", "libgcc_s_seh-1.dll", "libwinpthread-1.dll">>

openssl_libs == <<"libcrypto.so", "libcrypto.so.1.1", "libssl.so", "libssl.so.1.1">>

\* exit codes of a launched process
ExitCodes == {0, 1}

Range(s) == {s[i] : i \in DOMAIN s}

Stages == <<"HostConfigure", "HostBuild", "HostInstall",
            "CrossConfigure", "CrossBuild", "CrossInstall", "Pack">>

StageIndex(st) == CHOOSE i \in DOMAIN Stages : Stages[i] = st

----------------------------------------------------------------------------
(* The world a Qt6Build method reads and writes.  Every method below is a  *)
(* function from a world (and the inputs the environment chooses) to the   *)
(* world it leaves; w.exc is the exception that left the method, if any.   *)

\* what an exception tells its catcher: the command of a CalledProcessError
\* and the process output it holds (None when nothing was captured)
NoInfo == [cmd |-> None, output |-> None]

World == [fs |-> fs, environ |-> environ, self |-> self, log |-> log, exc |-> NoExc,
          info |-> NoInfo]

Raise(w, e) == [w EXCEPT !.exc = e]

\* os.path.join(a, b) raises TypeError when a is None
JoinRaises(a) == a = None

\* os.path.isfile(self.cmake_cmd) for the SDK-relative path
SdkCmakeIsFile(w) == w.fs.sdk = "cmake"

\* os.path.isdir(cmake_bin_path)
SdkCmakeBinIsDir(w) == w.fs.sdk \in {"dir", "cmake"}

\* Qt6Build.__init__ looking for the system cmake before the SDK's
Qt6Build_init_system_first(w) ==
    IF w.fs.system \notin supported_systems
    THEN Raise(w, "EnvironmentError")
    ELSE IF ~SdkCmakeIsFile(w) /\ ~w.fs.sysCmake
    THEN Raise(w, "EnvironmentError")
    ELSE [w EXCEPT
            !.self = [constructed |-> TRUE, system |-> w.fs.system,
                      cmake_cmd |-> IF w.fs.sysCmake THEN "system" ELSE "sdk"],
            !.fs.hostBuildDir = TRUE,
            !.fs.crossBuildDir = TRUE]

\* Qt6Build.__init__
Qt6Build_init(w) ==
    IF w.fs.system \notin supported_systems
    THEN Raise(w, "EnvironmentError")
    ELSE IF ~SdkCmakeIsFile(w) /\ ~w.fs.sysCmake
    THEN Raise(w, "EnvironmentError")
    ELSE [w EXCEPT
            !.self = [constructed |-> TRUE, system |-> w.fs.system,
                      cmake_cmd |-> IF SdkCmakeIsFile(w) THEN "sdk" ELSE "system"],
            !.fs.hostBuildDir = TRUE,
            !.fs.crossBuildDir = TRUE]

\* setup_environment adding a directory only when PATH does not hold it yet
setup_environment_dedup(w) ==
    LET p1 == IF SdkCmakeBinIsDir(w) /\ "cmake_bin" \notin Range(w.environ)
              THEN <<"cmake_bin">> \o w.environ ELSE w.environ
        p2 == IF config.mingw \notin {None, ""} /\ w.fs.mingwIsDir /\ "mingw" \notin Range(p1)
              THEN <<"mingw">> \o p1 ELSE p1
    IN  [w EXCEPT !.environ = p2]

\* Qt6Build.setup_environment
setup_environment(w) ==
    LET p1 == IF SdkCmakeBinIsDir(w) THEN <<"cmake_bin">> \o w.environ ELSE w.environ
        p2 == IF config.mingw \notin {None, ""} /\ w.fs.mingwIsDir
              THEN <<"mingw">> \o p1 ELSE p1
    IN  [w EXCEPT !.environ = p2]

\* the loop of copy_mingw_dlls without the os.path.exists test: shutil.copy
\* raises on the first missing source file
RECURSIVE copy_loop_unguarded(_, _, _)
copy_loop_unguarded(w, target, i) ==
    IF i > Len(dll_deps) THEN w
    ELSE IF JoinRaises(config.mingw) THEN Raise(w, "TypeError")
    ELSE IF dll_deps[i] \in w.fs.present
    THEN IF dll_deps[i] \in w.fs.copyFails
         THEN Raise(w, "OSError")
         ELSE copy_loop_unguarded([w EXCEPT !.fs[target] = @ \cup {dll_deps[i]}],
                                  target, i + 1)
    ELSE Raise(w, "FileNotFoundError")

\* the loop of copy_mingw_dlls over dll_deps[i..]
RECURSIVE copy_loop(_, _, _)
copy_loop(w, target, i) ==
    IF i > Len(dll_deps) THEN w
    ELSE IF JoinRaises(config.mingw) THEN Raise(w, "TypeError")
    ELSE IF dll_deps[i] \in w.fs.present
    THEN IF dll_deps[i] \in w.fs.copyFails
         THEN Raise(w, "OSError")
         ELSE copy_loop([w EXCEPT !.fs[target] = @ \cup {dll_deps[i]}], target, i + 1)
    ELSE copy_loop(w, target, i + 1)

\* Qt6Build.copy_mingw_dlls
copy_mingw_dlls(w, target) ==
    LET w1 == IF w.fs[target] = NoDir THEN [w EXCEPT !.fs[target] = {}] ELSE w
    IN  copy_loop(w1, target, 1)

\* subprocess.run whose non-zero exit goes unnoticed
subprocess_run_unchecked(w, stage, cwd, exit) ==
    IF ~w.fs[cwd] THEN Raise(w, "FileNotFoundError")
    ELSE [w EXCEPT !.log = Append(@, [stage |-> stage, exit |-> exit])]

\* the command line each stage passes to subprocess.run
CmdOf(stage) ==
    CASE stage = "HostConfigure" -> "configure <host options>"
      [] stage = "CrossConfigure" -> "configure <cross options> -- -DQT_FORCE_BUILD_TOOLS=1"
      [] stage \in {"HostBuild", "CrossBuild"} -> "cmake --build . --parallel 4"
      [] stage \in {"HostInstall", "CrossInstall"} -> "cmake --install ."

\* subprocess.run(cmd, cwd=..., check=True): the process is started only
\* when the working directory exists; a non-zero exit raises
\* CalledProcessError(returncode, cmd), whose output is None because
\* neither stdout nor stderr is captured.
subprocess_run(w, stage, cwd, exit) ==
    IF ~w.fs[cwd] THEN Raise(w, "FileNotFoundError")
    ELSE LET w1 == [w EXCEPT !.log = Append(@, [stage |-> stage, exit |-> exit])]
         IN  IF exit # 0
             THEN [Raise(w1, "CalledProcessError") EXCEPT
                      !.info = [cmd |-> CmdOf(stage), output |-> None]]
             ELSE w1

\* configure_host copying the DLLs whatever the exit code of configure
configure_host_copy_always(w, exit) ==
    LET w1 == subprocess_run(setup_environment(w), "HostConfigure", "hostBuildDir", exit)
    IN  IF w1.exc = "FileNotFoundError" THEN w1
        ELSE LET w2 == copy_mingw_dlls([w1 EXCEPT !.exc = NoExc], "hostBin")
             IN  IF w1.exc # NoExc THEN [w2 EXCEPT !.exc = w1.exc] ELSE w2

\* Qt6Build.configure_host
configure_host(w, exit) ==
    LET w1 == subprocess_run(setup_environment(w), "HostConfigure", "hostBuildDir", exit)
    IN  IF w1.exc # NoExc THEN w1 ELSE copy_mingw_dlls(w1, "hostBin")

\* Qt6Build.build_host
build_host(w, exit) ==
    subprocess_run(setup_environment(w), "HostBuild", "hostBuildDir", exit)

\* Qt6Build.install_host
install_host(w, exit) ==
    subprocess_run(w, "HostInstall", "hostBuildDir", exit)

\* Qt6Build.configure_cross
configure_cross(w, exit) ==
    LET w1 == subprocess_run(setup_environment(w), "CrossConfigure", "crossBuildDir", exit)
    IN  IF w1.exc # NoExc THEN w1
        ELSE IF JoinRaises(config.prefix) THEN Raise(w1, "TypeError")
        ELSE copy_mingw_dlls(w1, "crossBin")

\* Qt6Build.build_cross
build_cross(w, exit) ==
    subprocess_run(setup_environment(w), "CrossBuild", "crossBuildDir", exit)

\* Qt6Build._copy_openssl_libs
copy_openssl_libs(w) ==
    IF JoinRaises(config.prefix) THEN Raise(w, "TypeError")
    ELSE [w EXCEPT !.fs.crossLib = @ \cup (Range(openssl_libs) \cap w.fs.opensslPresent)]

\* Qt6Build.install_cross
install_cross(w, exit) ==
    LET w1 == subprocess_run(w, "CrossInstall", "crossBuildDir", exit)
    IN  IF w1.exc # NoExc THEN w1
        ELSE IF config.openssl_runtime THEN copy_openssl_libs(w1) ELSE w1

\* Qt6Build.configure
configure(w, e1) == configure_host(w, e1)

\* Qt6Build.build
build(w, e1, e2, e3) ==
    LET w1 == build_host(w, e1) IN
    IF w1.exc # NoExc THEN w1 ELSE
    LET w2 == configure_cross(w1, e2) IN
    IF w2.exc # NoExc THEN w2 ELSE build_cross(w2, e3)

\* Qt6Build.install
install(w, e1, e2) ==
    LET w1 == install_host(w, e1) IN
    IF w1.exc # NoExc THEN w1 ELSE install_cross(w1, e2)

\* Qt6Build.clean: rmtree(ignore_errors=True) removes a directory or, on an
\* error, leaves it; gone[d] says whether the removal of d went through
clean(w, goneHost, goneCross) ==
    [w EXCEPT !.fs.hostBuildDir = @ /\ ~goneHost,
              !.fs.crossBuildDir = @ /\ ~goneCross]

\* Qt6Build.pack without the test of the install prefix
pack_unchecked(w, exit) ==
    LET w1 == [w EXCEPT !.log = Append(@, [stage |-> "Pack", exit |-> exit])]
    IN  IF exit # 0 THEN Raise(w1, "ArchiveError")
        ELSE [w1 EXCEPT !.fs.archives = @ + 1]

\* Qt6Build.pack: create_archive is the external collaborator; it is
\* recorded as the Pack stage, exit 0 when it returns and 1 when it raises
pack(w, exit) ==
    IF config.prefix \in {None, ""} THEN Raise(w, "ValueError")
    ELSE LET w1 == [w EXCEPT !.log = Append(@, [stage |-> "Pack", exit |-> exit])]
         IN  IF exit # 0 THEN Raise(w1, "ArchiveError")
             ELSE [w1 EXCEPT !.fs.archives = @ + 1]

----------------------------------------------------------------------------
(* Initial states: the Config answers and the file system before the       *)
(* orchestrator is constructed.                                            *)

\* (mingw, isdir(mingw), DLLs present in it, DLLs whose copy fails)
MingwSetups ==
    {[mingw |-> m, isDir |-> FALSE, present |-> {}, copyFails |-> {}] : m \in {None, "", "mingw"}}
    \cup {[mingw |-> "mingw", isDir |-> TRUE, present |-> P, copyFails |-> F] :
            P \in SUBSET Range(dll_deps), F \in {{}} \cup {{d} : d \in Range(dll_deps)}}

\* (openssl_runtime(), libraries present under the OpenSSL lib directory)
OpensslSetups ==
    {[runtime |-> FALSE, present |-> P] : P \in {{}, Range(openssl_libs)}}
    \cup {[runtime |-> TRUE, present |-> P] : P \in {{}, {"libssl.so"}, Range(openssl_libs)}}

\* values of PATH before the orchestrator is constructed
InitialPaths == {<<"usr_bin">>, <<"cmake_bin", "usr_bin">>}

FetcherIdle == [op |-> "none", arg |-> NoneStr, query |-> "none", output |-> <<>>,
                wfault |-> "ok", rfault |-> FALSE, result |-> NoneStr, exc |-> NoExc,
                msg |-> "", written |-> FALSE, lastWritten |-> NoneStr]

InitBuild(systems, mingws, sdks, sysCmakes, prefixes, openssls, dirs, paths) ==
    /\ \E sys \in systems, m \in mingws, sdk \in sdks, sc \in sysCmakes, p \in prefixes,
          o \in openssls, d \in dirs :
         /\ m.copyFails \subseteq m.present
         /\ config = [mingw |-> m.mingw, prefix |-> p, openssl_runtime |-> o.runtime]
         /\ fs = [system |-> sys, sdk |-> sdk, sysCmake |-> sc, mingwIsDir |-> m.isDir,
                  present |-> m.present, copyFails |-> m.copyFails,
                  opensslPresent |-> o.present,
                  hostBuildDir |-> d, crossBuildDir |-> d,
                  hostBin |-> IF d THEN {} ELSE NoDir,
                  crossBin |-> IF d THEN {} ELSE NoDir,
                  crossLib |-> {}, archives |-> 0]
    /\ environ \in paths
    /\ self = [constructed |-> FALSE, system |-> None, cmake_cmd |-> None]
    /\ log = <<>>
    /\ last = [op |-> "none", exc |-> NoExc, info |-> NoInfo, calls |-> 0]
    /\ pc = "start"

\* no pin file, no fetcher operation yet
NoPin == pinFile = NoFile /\ fetcher = FetcherIdle

----------------------------------------------------------------------------
(* Operations on the orchestrator *)

Becomes(op, w) ==
    /\ fs' = w.fs
    /\ environ' = w.environ
    /\ self' = w.self
    /\ log' = w.log
    /\ last' = [op |-> op, exc |-> w.exc, info |-> w.info,
                calls |-> IF op = "init" THEN 0 ELSE last.calls + 1]
    /\ UNCHANGED <<config, pinFile, fetcher>>

\* Qt6Build(source_dir, config): attempted once; when it raises there is no
\* object, so no method can be called afterwards
Construct ==
    /\ last.op = "none"
    /\ Becomes("init", Qt6Build_init(World))
    /\ pc' = pc

CanCall == self.constructed /\ last.calls < MaxCalls /\ pc = "start"

CallConfigureHost ==
    /\ CanCall
    /\ \E e \in ExitCodes : Becomes("configure_host", configure_host(World, e))
    /\ pc' = pc

CallBuildHost ==
    /\ CanCall
    /\ \E e \in ExitCodes : Becomes("build_host", build_host(World, e))
    /\ pc' = pc

CallInstallHost ==
    /\ CanCall
    /\ \E e \in ExitCodes : Becomes("install_host", install_host(World, e))
    /\ pc' = pc

CallConfigureCross ==
    /\ CanCall
    /\ \E e \in ExitCodes : Becomes("configure_cross", configure_cross(World, e))
    /\ pc' = pc

CallBuildCross ==
    /\ CanCall
    /\ \E e \in ExitCodes : Becomes("build_cross", build_cross(World, e))
    /\ pc' = pc

CallInstallCross ==
    /\ CanCall
    /\ \E e \in ExitCodes : Becomes("install_cross", install_cross(World, e))
    /\ pc' = pc

CallClean ==
    /\ CanCall
    /\ \E gh, gc \in BOOLEAN : Becomes("clean", clean(World, gh, gc))
    /\ pc' = pc

CallPack ==
    /\ CanCall
    /\ \E e \in ExitCodes : Becomes("pack", pack(World, e))
    /\ pc' = pc

\* The driver script: qt = Qt6Build(...); qt.configure(); qt.build();
\* qt.install().  An exception leaving a call ends the script.
After(w, next) == IF w.exc = NoExc THEN next ELSE "aborted"

RunConfigure ==
    /\ self.constructed /\ pc = "start" /\ last.op = "init"
    /\ \E e \in ExitCodes :
         LET w == configure(World, e)
         IN  Becomes("configure", w) /\ pc' = After(w, "configured")

RunBuild ==
    /\ pc = "configured"
    /\ \E e1, e2, e3 \in ExitCodes :
         LET w == build(World, e1, e2, e3)
         IN  Becomes("build", w) /\ pc' = After(w, "built")

RunInstall ==
    /\ pc = "built"
    /\ \E e1, e2 \in ExitCodes :
         LET w == install(World, e1, e2)
         IN  Becomes("install", w) /\ pc' = After(w, "done")

\* every call sequence on one orchestrator
InitCalls ==
    /\ NoPin
    /\ InitBuild({"Linux", "FreeBSD"},
                 {m \in MingwSetups : m.mingw = None
                                 \/ (m.present = Range(dll_deps) /\ m.copyFails = {})},
                 {"none", "cmake"}, {TRUE}, {None, "", "qt"},
                 {o \in OpensslSetups : o.present \in {{}, Range(openssl_libs)}}, {FALSE},
                 {<<"usr_bin">>})

NextCalls ==
    \/ Construct
    \/ CallConfigureHost
    \/ CallBuildHost
    \/ CallInstallHost
    \/ CallConfigureCross
    \/ CallBuildCross
    \/ CallInstallCross
    \/ CallClean
    \/ CallPack

SpecCalls == InitCalls /\ [][NextCalls]_vars

\* the driver script over every configuration
InitPipeline ==
    /\ NoPin
    /\ InitBuild(Systems, MingwSetups, {"none", "dir", "cmake"}, BOOLEAN, {None, "", "qt"},
                 OpensslSetups, BOOLEAN, InitialPaths)

NextPipeline ==
    \/ Construct
    \/ RunConfigure
    \/ RunBuild
    \/ RunInstall

SpecPipeline == InitPipeline /\ [][NextPipeline]_vars

----------------------------------------------------------------------------
(* CommitHashFetcher *)

\* len(commit_hash) != 40
HashLen == 40

\* the characters str.strip() removes that the model draws from
Whitespace == {" ", "\t", "\n", "\r"}

\* index of the first character of s at or after i that is not whitespace
RECURSIVE first_kept(_, _)
first_kept(s, i) ==
    IF i <= Len(s) /\ s[i] \in Whitespace THEN first_kept(s, i + 1) ELSE i

\* index of the last character of s at or before i that is not whitespace
RECURSIVE last_kept(_, _)
last_kept(s, i) ==
    IF i >= 1 /\ s[i] \in Whitespace THEN last_kept(s, i - 1) ELSE i

\* str.strip()
strip(s) == SubSeq(s, first_kept(s, 1), last_kept(s, Len(s)))

\* index of the first sep in s at or after i, Len(s) + 1 when there is none
RECURSIVE find(_, _, _)
find(s, sep, i) ==
    IF i <= Len(s) /\ s[i] # sep THEN find(s, sep, i + 1) ELSE i

\* s.split(sep)[0]: what precedes the first sep, all of s when it has none
split_first(s, sep) == SubSeq(s, 1, find(s, sep, 1) - 1)

\* lines 66-68: the hash field of the stripped output
commit_hash_of(output) == strip(split_first(split_first(output, "\n"), "\t"))

\* CommitHashFetcher.fetch_latest_commit_hash.  query is how git ls-remote
\* ended ("ok", "failed" = non-zero exit, "timeout"), stdout its output.
\* Every exception is re-raised as CommitHashFetcherError; msg tells which.
fetch_latest_commit_hash(query, stdout) ==
    IF query = "timeout"
    THEN [exc |-> "CommitHashFetcherError", msg |-> "Timeout", value |-> NoneStr]
    ELSE IF query = "failed"
    THEN [exc |-> "CommitHashFetcherError", msg |-> "Failed to fetch", value |-> NoneStr]
    ELSE LET output == strip(stdout)
             commit_hash == commit_hash_of(output)
         IN  IF output = <<>>
             THEN [exc |-> "CommitHashFetcherError", msg |-> "Error fetching: No output",
                   value |-> NoneStr]
             ELSE IF commit_hash = <<>> \/ Len(commit_hash) # HashLen
             THEN [exc |-> "CommitHashFetcherError", msg |-> "Error fetching: Invalid",
                   value |-> NoneStr]
             ELSE [exc |-> NoExc, msg |-> "", value |-> commit_hash]

\* lines 96-105 of update_commit_hash_file: open(..., 'w') truncates, then
\* the write; wfault says where an IOError strikes, if anywhere
write_pin(file, commit_hash, wfault) ==
    IF wfault = "open"
    THEN [file |-> file, exc |-> "CommitHashFetcherError", msg |-> "Failed to write",
          value |-> NoneStr]
    ELSE IF wfault = "write"
    THEN [file |-> <<>>, exc |-> "CommitHashFetcherError", msg |-> "Failed to write",
          value |-> NoneStr]
    ELSE [file |-> commit_hash \o <<"\n">>, exc |-> NoExc, msg |-> "", value |-> commit_hash]

\* update_commit_hash_file opening the pin file for writing before it
\* fetches: a failed fetch leaves the file truncated
update_commit_hash_file_open_first(file, commit_hash, query, stdout, wfault) ==
    IF commit_hash = NoneStr
    THEN LET f == fetch_latest_commit_hash(query, stdout)
         IN  IF f.exc # NoExc
             THEN [file |-> <<>>, exc |-> f.exc, msg |-> f.msg, value |-> NoneStr]
             ELSE write_pin(file, f.value, wfault)
    ELSE write_pin(file, commit_hash, wfault)

\* CommitHashFetcher.update_commit_hash_file
update_commit_hash_file(file, commit_hash, query, stdout, wfault) ==
    IF commit_hash = NoneStr
    THEN LET f == fetch_latest_commit_hash(query, stdout)
         IN  IF f.exc # NoExc
             THEN [file |-> file, exc |-> f.exc, msg |-> f.msg, value |-> NoneStr]
             ELSE write_pin(file, f.value, wfault)
    ELSE write_pin(file, commit_hash, wfault)

\* read_commit_hash_file returning the content as read, newline included
read_commit_hash_file_raw(file, rfault) ==
    IF file = NoFile THEN NoneStr
    ELSE IF rfault THEN NoneStr
    ELSE IF file # <<>> THEN file ELSE NoneStr

\* CommitHashFetcher.read_commit_hash_file; rfault: the open or the read
\* raises IOError
read_commit_hash_file(file, rfault) ==
    IF file = NoFile THEN NoneStr
    ELSE IF rfault THEN NoneStr
    ELSE LET content == strip(file)
         IN  IF content # <<>> THEN content ELSE NoneStr

(* Inputs of the fetcher *)

Rep(c, n) == [i \in 1..n |-> c]

\* hash candidates: one character followed by a run of another, of length
\* HashLen or Pad off it, and the empty string
Candidates ==
    {<<>>} \cup
    {<<c1>> \o Rep(c2, n - 1) :
        c1 \in {"a", "F", "z"}, c2 \in {"9", " "},
        n \in {HashLen - Pad, HashLen, HashLen + Pad}}

Ref == <<"H", "E", "A", "D">>

\* outputs of git ls-remote built around a candidate
Plain(h) == h \o <<"\t">> \o Ref \o <<"\n">>
Shapes(h) ==
    { Plain(h),
      h,
      <<" ">> \o h \o <<" ", "\t">> \o Ref \o <<"\n">>,
      Plain(h) \o Plain(Rep("b", HashLen)) }

Outputs == UNION {Shapes(h) : h \in Candidates}

QueryResults ==
    {[query |-> "ok", stdout |-> o] : o \in Outputs}
    \cup {[query |-> q, stdout |-> <<>>] : q \in {"failed", "timeout"}}

PlainQueryResults ==
    {[query |-> "ok", stdout |-> Plain(h)] : h \in Candidates}
    \cup {[query |-> q, stdout |-> <<>>] : q \in {"failed", "timeout"}}

NoQuery == [query |-> "none", stdout |-> <<>>]

\* the pin file before the first operation: absent, empty, or edited by hand
InitFetch ==
    /\ InitBuild({"Linux"}, {m \in MingwSetups : m.mingw = None}, {"cmake"}, {TRUE}, {"qt"},
                 {o \in OpensslSetups : ~o.runtime /\ o.present = {}}, {FALSE},
                 {<<"usr_bin">>})
    /\ pinFile \in {NoFile, <<>>, <<"\n">>, <<"x", "\n">>}
    /\ fetcher = FetcherIdle

(* Operations on the fetcher *)

FetcherDid(op, arg, q, wfault, rfault, r, keeps) ==
    /\ fetcher' = [op |-> op, arg |-> arg, query |-> q.query, output |-> q.stdout,
                   wfault |-> wfault, rfault |-> rfault,
                   result |-> r.value, exc |-> r.exc, msg |-> r.msg,
                   written |-> IF keeps THEN fetcher.written
                               ELSE r.exc = NoExc,
                   lastWritten |-> IF keeps THEN fetcher.lastWritten
                                   ELSE r.value]
    /\ UNCHANGED <<config, fs, environ, self, log, last, pc>>

CallFetch ==
    /\ \E q \in QueryResults :
         \E r \in {fetch_latest_commit_hash(q.query, q.stdout)} :
            FetcherDid("fetch", NoneStr, q, "ok", FALSE, r, TRUE)
    /\ pinFile' = pinFile

CallUpdateFetched ==
    \E q \in PlainQueryResults, wfault \in {"ok", "open", "write"} :
        \E r \in {update_commit_hash_file(pinFile, NoneStr, q.query, q.stdout, wfault)} :
            /\ FetcherDid("update", NoneStr, q, wfault, FALSE, r, r.file = pinFile /\ r.exc # NoExc)
            /\ pinFile' = r.file

CallUpdateSupplied ==
    \E h \in Candidates, wfault \in {"ok", "open", "write"} :
        \E r \in {update_commit_hash_file(pinFile, h, "none", <<>>, wfault)} :
            /\ FetcherDid("update", h, NoQuery, wfault, FALSE, r, r.file = pinFile /\ r.exc # NoExc)
            /\ pinFile' = r.file

CallRead ==
    /\ \E rfault \in BOOLEAN :
         FetcherDid("read", NoneStr, NoQuery, "ok", rfault,
                    [value |-> read_commit_hash_file(pinFile, rfault), exc |-> NoExc, msg |-> ""],
                    TRUE)
    /\ pinFile' = pinFile

NextFetch ==
    \/ CallFetch
    \/ CallUpdateFetched
    \/ CallUpdateSupplied
    \/ CallRead

SpecFetch == InitFetch /\ [][NextFetch]_vars

----------------------------------------------------------------------------
(* Properties of the build pipeline *)

StagesOf(l) == [i \in DOMAIN l |-> l[i].stage]

\* the six build stages in the order the specification gives them
BuildOrder == SubSeq(Stages, 1, 6)

\* C1: a driver script run configure(); build(); install() in which every
\* process exits 0 starts the stages in exactly the order HostConfigure,
\* HostBuild, HostInstall, CrossConfigure, CrossBuild, CrossInstall.
C1_PipelineOrder ==
    pc = "done" => StagesOf(log) = BuildOrder

\* C2: in a run of the driver script, once a stage's process has exited
\* non-zero no later stage is started: only the last started process can
\* have a non-zero exit, and then the script has been aborted.
C2_FailureShortCircuit ==
    /\ \A i \in 1..(Len(log) - 1) : log[i].exit = 0
    /\ (log # <<>> /\ log[Len(log)].exit # 0) => pc = "aborted"

\* build_host exited non-zero in the driver script: nothing ran after it
C2_Witness ==
    /\ pc = "aborted"
    /\ StagesOf(log) = <<"HostConfigure", "HostBuild">>
    /\ log[2].exit # 0

\* Every stage before st has completed successfully within l[1..i-1]
PrecedingSucceeded(l, i) ==
    \A k \in 1..(StageIndex(l[i].stage) - 1) :
        \E j \in 1..(i - 1) : l[j].stage = Stages[k] /\ l[j].exit = 0

\* C3: whatever public stage operations are called, no stage's process is
\* started unless every preceding stage of the order has already completed
\* successfully.
C3_StagePrecondition ==
    \A i \in DOMAIN log : PrecedingSucceeded(log, i)

\* the orchestrator state of the specification's state machine, read off
\* the processes run so far: 0 = Init, k = the k-th stage was the last to succeed
HasFailed(l) == \E i \in DOMAIN l : l[i].exit # 0
StateOf(l) == IF l = <<>> THEN 0 ELSE StageIndex(l[Len(l)].stage)

\* C4: the orchestrator state only moves forward, and Failed is terminal:
\* after a stage exited non-zero no operation starts a process or changes
\* the state.
C4_ForwardOnly ==
    [][ /\ HasFailed(log) => log' = log
        /\ ~HasFailed(log') => StateOf(log') >= StateOf(log) ]_vars

\* the files of a directory, none when it does not exist yet
Dir(d) == IF d = NoDir THEN {} ELSE d

\* a step in which the operation op was called
Called(op) == last'.calls = last.calls + 1 /\ last'.op = op

\* the step started the process of stage st and it exited 0
Succeeded(st) ==
    \E i \in (Len(log) + 1)..Len(log') : log'[i] = [stage |-> st, exit |-> 0]

\* C8: copy_mingw_dlls copies exactly the dependency files present in the
\* source directory into the destination, creating it if absent, and does
\* not raise because a source file is missing (whichever subset is present,
\* when the MinGW directory is configured and no copy hits an I/O error).
C8_CopyPresentOnly ==
    [][ (config.mingw # None /\ fs.present \cap fs.copyFails = {}) =>
          /\ (Called("configure") /\ Succeeded("HostConfigure")) =>
                /\ last'.exc = NoExc
                /\ fs'.hostBin = Dir(fs.hostBin) \cup fs.present
          /\ (Called("build") /\ Succeeded("CrossConfigure") /\ config.prefix # None) =>
                /\ last'.exc \in {NoExc, "CalledProcessError"}
                /\ fs'.crossBin = Dir(fs.crossBin) \cup fs.present ]_vars

\* two of the three dependency files were present and exactly they were copied
C8_Witness ==
    /\ last.op = "configure" /\ last.exc = NoExc
    /\ Cardinality(fs.present) = 2
    /\ fs.copyFails = {}
    /\ fs.hostBin = fs.present

\* C9: pack() with an empty or unset install prefix raises the
\* configuration error and touches nothing: no archive is created, the
\* archive collaborator is not invoked, the file system is unchanged.
C9_PackNeedsPrefix ==
    [][ (Called("pack") /\ config.prefix \in {None, ""}) =>
          /\ last'.exc = "ValueError"
          /\ fs' = fs /\ log' = log /\ environ' = environ ]_vars

\* pack() refused on an orchestrator that has already run stages
C9_Witness ==
    /\ last.op = "pack" /\ last.exc = "ValueError"
    /\ config.prefix = ""
    /\ Len(log) >= 2

\* C10: on a supported platform the constructor takes the SDK's cmake when
\* that file exists, else the system cmake without raising, else raises
\* and leaves the file system as it was; without an orchestrator no stage
\* ever runs.
C10_DriverResolution ==
    /\ [][ (last.op = "none" /\ last'.op = "init" /\ fs.system \in supported_systems) =>
             IF fs.sdk = "cmake"
             THEN self'.constructed /\ self'.cmake_cmd = "sdk" /\ last'.exc = NoExc
             ELSE IF fs.sysCmake
             THEN self'.constructed /\ self'.cmake_cmd = "system" /\ last'.exc = NoExc
             ELSE /\ ~self'.constructed /\ last'.exc = "EnvironmentError"
                  /\ fs' = fs ]_vars
    /\ [](~self.constructed => log = <<>>)

\* the SDK has no cmake file and the system cmake was taken
C10_Witness ==
    /\ self.constructed /\ self.cmake_cmd = "system"
    /\ fs.sdk # "cmake" /\ fs.sysCmake
    /\ last.exc = NoExc

----------------------------------------------------------------------------
(* Properties of the commit hash fetcher *)

LowerHex == {"0", "1", "2", "3", "4", "5", "6", "7", "8", "9",
             "a", "b", "c", "d", "e", "f"}

\* the CommitHash format of the specification
IsValidHash(h) == Len(h) = HashLen /\ \A i \in DOMAIN h : h[i] \in LowerHex

\* C5: when the query exits 0, fetch_latest_commit_hash returns the hash
\* field of the first output line if and only if that field is 40 lowercase
\* hexadecimal characters, and raises the fetch error for any other field.
C5_FetchValidates ==
    (fetcher.op = "fetch" /\ fetcher.query = "ok") =>
        LET field == commit_hash_of(strip(fetcher.output))
        IN  IF IsValidHash(field)
            THEN fetcher.exc = NoExc /\ fetcher.result = field
            ELSE fetcher.exc = "CommitHashFetcherError" /\ fetcher.result = NoneStr

\* C6: a pin file written by the fetcher is one line of 40 lowercase
\* hexadecimal characters and a newline.
C6_PinFileFormat ==
    fetcher.written =>
        /\ Len(pinFile) = HashLen + 1
        /\ pinFile[HashLen + 1] = "\n"
        /\ IsValidHash(SubSeq(pinFile, 1, HashLen))

\* C7: a read (that meets no I/O error) after a successful update with a
\* valid hash H returns exactly H, whatever the file held before.
C7_RoundTrip ==
    (/\ fetcher.op = "read" /\ ~fetcher.rfault
     /\ fetcher.lastWritten # NoneStr
     /\ IsValidHash(fetcher.lastWritten)) =>
        fetcher.result = fetcher.lastWritten

\* a valid hash was written and read back
C7_Witness ==
    /\ fetcher.op = "read" /\ ~fetcher.rfault
    /\ IsValidHash(fetcher.lastWritten)
    /\ fetcher.result = fetcher.lastWritten

\* C11: every failure of the remote query (timeout, non-zero exit, empty
\* output, malformed hash) reaches the caller as CommitHashFetcherError and
\* never as a returned value, and only the timeout carries the timeout
\* indication.
C11_FetchFailures ==
    fetcher.op = "fetch" =>
        LET failed == \/ fetcher.query \in {"timeout", "failed"}
                      \/ strip(fetcher.output) = <<>>
                      \/ ~IsValidHash(commit_hash_of(strip(fetcher.output)))
        IN  /\ fetcher.exc \in {NoExc, "CommitHashFetcherError"}
            /\ failed => (fetcher.exc = "CommitHashFetcherError" /\ fetcher.result = NoneStr)
            /\ (fetcher.msg = "Timeout") <=> (fetcher.query = "timeout")

----------------------------------------------------------------------------
(* Properties of the search path *)

\* the operations that call setup_environment
SetupCallers == {"configure_host", "build_host", "configure_cross", "build_cross"}

\* position of the first occurrence of entry e in path p (e occurs in p)
FirstAt(p, e) == CHOOSE i \in DOMAIN p : p[i] = e /\ \A j \in 1..(i - 1) : p[j] # e

\* the SDK cmake directory and the MinGW directory both exist
BothDirs ==
    /\ fs.sdk \in {"dir", "cmake"}
    /\ config.mingw \notin {None, ""} /\ fs.mingwIsDir

\* C12: after setup_environment with both directories present, the build
\* driver's directory comes before the auxiliary runtime's in the search
\* path.
C12_DriverFirst ==
    (last.op \in SetupCallers /\ BothDirs) =>
        FirstAt(environ, "cmake_bin") < FirstAt(environ, "mingw")

\* C13: no stage operation changes the PATH of the running process.
C13_PathUntouched ==
    [][environ' = environ]_vars

----------------------------------------------------------------------------
(* Properties of the stage errors *)

\* what a failing configure, build or install process writes before exiting
Diagnostics == "diagnostic text of the tool"

\* C14: when a stage's process exits non-zero, the error the caller gets
\* tells which stage failed and carries the output of the failed process.
C14_StageError ==
    last.exc = "CalledProcessError" =>
        /\ \A st \in Range(BuildOrder) :
              CmdOf(st) = last.info.cmd => st = log[Len(log)].stage
        /\ last.info.output = Diagnostics

----------------------------------------------------------------------------
(* Further properties of the pin file, the dependency copy and the build   *)
(* directories                                                             *)

\* C15: read_commit_hash_file returns None exactly when the pin file is
\* absent or its trimmed content is empty, otherwise the trimmed content;
\* a read that fails for another I/O reason raises the persistence error.
C15_ReadResult ==
    fetcher.op = "read" =>
        IF pinFile = NoFile
        THEN fetcher.exc = NoExc /\ fetcher.result = NoneStr
        ELSE IF fetcher.rfault
        THEN fetcher.exc = "CommitHashFetcherError"
        ELSE /\ fetcher.exc = NoExc
             /\ fetcher.result = IF strip(pinFile) = <<>> THEN NoneStr ELSE strip(pinFile)

\* C16: when the copy of one present dependency file fails, the later files
\* of the list are still copied and the earlier ones stay: the destination
\* ends with every present file except the failing one.
C16_BestEffortCopy ==
    [][ (config.mingw # None /\ Called("configure") /\ Succeeded("HostConfigure")) =>
          fs'.hostBin = Dir(fs.hostBin) \cup (fs.present \ fs.copyFails) ]_vars

\* the build directory each stage operation runs its process in
CwdOf(op) ==
    CASE op \in {"configure_host", "build_host", "install_host"} -> "hostBuildDir"
      [] op \in {"configure_cross", "build_cross", "install_cross"} -> "crossBuildDir"

StageOps == {"configure_host", "build_host", "install_host",
             "configure_cross", "build_cross", "install_cross"}

\* C17: whenever a stage operation goes to start its process, the build
\* directory it uses as working directory exists, also after clean().
C17_BuildDirExists ==
    [][ \A op \in StageOps : Called(op) => fs[CwdOf(op)] ]_vars

----------------------------------------------------------------------------
(* Side effects of the stages, of a failed fetch and of setup_environment  *)

\* C18: the runtime DLLs reach the host bin directory only in a step whose
\* configure_host process exited 0, the cross bin directory only after a
\* configure_cross that exited 0, and the OpenSSL libraries reach the cross
\* lib directory only after an install_cross that exited 0 with the OpenSSL
\* runtime configured.
C18_SideEffectsAfterSuccess ==
    [][ /\ fs'.hostBin # fs.hostBin => Succeeded("HostConfigure")
        /\ fs'.crossBin # fs.crossBin => Succeeded("CrossConfigure")
        /\ fs'.crossLib # fs.crossLib =>
              (Succeeded("CrossInstall") /\ config.openssl_runtime) ]_vars

\* install_cross succeeded and copied the OpenSSL libraries
C18_Witness ==
    /\ last.op = "install_cross" /\ last.exc = NoExc
    /\ config.openssl_runtime
    /\ fs.crossLib = Range(openssl_libs)

\* C19: update_commit_hash_file() without a hash fetches first; when the
\* fetch fails the pin file is exactly as before and the fetch error
\* reaches the caller.
C19_FailedFetchKeepsPin ==
    [][ (/\ fetcher' # fetcher
         /\ fetcher'.op = "update" /\ fetcher'.arg = NoneStr
         /\ fetch_latest_commit_hash(fetcher'.query, fetcher'.output).exc # NoExc) =>
          /\ pinFile' = pinFile
          /\ fetcher'.exc = "CommitHashFetcherError"
          /\ fetcher'.result = NoneStr ]_vars

\* the query timed out and the pin file written earlier is still there
C19_Witness ==
    /\ fetcher.op = "update" /\ fetcher.arg = NoneStr
    /\ fetcher.query = "timeout"
    /\ fetcher.exc = "CommitHashFetcherError"
    /\ fetcher.written /\ pinFile = fetcher.lastWritten \o <<"\n">>

Count(p, e) == Cardinality({i \in DOMAIN p : p[i] = e})

\* what one call of setup_environment puts in front of PATH
Prepended ==
    (IF config.mingw \notin {None, ""} /\ fs.mingwIsDir THEN <<"mingw">> ELSE <<>>)
    \o (IF fs.sdk \in {"dir", "cmake"} THEN <<"cmake_bin">> ELSE <<>>)

RECURSIVE Times(_, _)
Times(p, n) == IF n = 0 THEN <<>> ELSE p \o Times(p, n - 1)

\* the stages of the step whose methods call setup_environment
SetupCalls ==
    Cardinality({i \in (Len(log) + 1)..Len(log') :
                    log'[i].stage \in {"HostConfigure", "HostBuild",
                                       "CrossConfigure", "CrossBuild"}})

\* C20: setup_environment only prepends, one entry per existing directory
\* and call, without deduplication: each step of the driver script leaves
\* the old PATH as a suffix of the new one, and after the full run the
\* entries of four calls stand in front of the PATH the run started with.
C20_PrependOnly ==
    /\ [][ environ' = Times(Prepended, SetupCalls) \o environ ]_vars
    /\ [](pc = "done" =>
            \E p \in InitialPaths : environ = Times(Prepended, 4) \o p)

\* a full run with both directories present, the cmake directory already
\* in PATH before: it is there five times, the MinGW directory four times
C20_Witness ==
    /\ pc = "done"
    /\ Count(environ, "cmake_bin") = 5
    /\ Count(environ, "mingw") = 4

====
